---- MODULE Spec2Model ----
(***************************************************************************)
(* RankTracker: the rank resolution of one keyword (getGoogleRank) as the  *)
(* server's search client (services/searchService, the file that requires  *)
(* ../utils/logger) and as the older stand-alone client (searchService.js) *)
(* implement it, and the check-ranking routes of server.js that call it.   *)
(*                                                                         *)
(* A search result is abstracted to the class of its link:                 *)
(*   "target"  a link the client's match test accepts for the domain,      *)
(*   "other"   a link the match test rejects,                              *)
(*   "nolink"  an item without a link property.                            *)
(* One step of a call is the code that runs between two awaits.            *)
(***************************************************************************)
EXTENDS Integers, Sequences, FiniteSets, TLC

---------------------------------------------------------------------------
(* Bounds of the model *)

\* at most this many "target" items in one page of organic items
MaxMatches == 2
\* at most this many entries in the promotions list of the first page
MaxAds == 2
\* calls of getGoogleRank that can be in flight together (the keywords of a batch)
MaxCalls == 2
\* the clock stops at MaxTime: at most this many route requests are served
MaxTime == 2
\* at most this many entries in a ranking history shown by the keyword list
MaxShown == 3
\* at most this many parts (scheme, www., blank, host) in a string to normalize
MaxParts == 3

(* Program constants *)

\* num: 10, the page size asked of the backend
PageSize == 10
\* the first start offset of the for loop
FirstStart == 1
\* the last start offset of the for loop (startIndex <= 91)
LastStart == 91
\* the ranking history keeps the last 30 entries
HistoryCapacity == 30

---------------------------------------------------------------------------
(* Inputs *)

Clients == {"services", "legacy"}

Domains == {"", "example.com"}

Keywords == {"", "widgets"}

ItemLinks == {"target", "other", "nolink"}

\* a page of n organic items whose "target" items sit at the indexes M and
\* whose items without a link sit at the indexes N
PageOf(n, M, N) ==
    [i \in 1..n |-> IF i \in M THEN "target" ELSE IF i \in N THEN "nolink" ELSE "other"]

\* the lengths of the organic item lists: empty, a single item, one item short
\* of a full page, a full page (the code reads the length only as < 10, and
\* every index 0..9 of a match occurs)
PageLengths == {0, 1, PageSize - 1, PageSize}

\* the indexes at which an item may lack a link: the first item of a page
NoLinkIndexes == {1}

\* the organic item lists a response can carry: at most MaxMatches "target"
\* items; a full page without a "target" item is made of "other" items alone
Pages ==
    UNION { { PageOf(n, MN[1], MN[2]) :
                MN \in { X \in (SUBSET (1..n)) \X (SUBSET NoLinkIndexes) :
                            /\ Cardinality(X[1]) <= MaxMatches
                            /\ X[2] \subseteq (1..n) \ X[1]
                            /\ (n = PageSize /\ X[1] = {}) => X[2] = {} } }
            : n \in PageLengths }

\* the promotions lists the response of the first page can carry
Promos == UNION { [1..n -> ItemLinks] : n \in 0..MaxAds }

\* the promotions lists the response of a later page can carry
LaterPromos == { <<>>, <<"target">>, <<"other", "target">> }

\* the items property of a response body: an array, absent, or a value that is
\* no array (not iterable)
ItemValues ==
    [tag : {"array"}, list : Pages] \cup [tag : {"absent", "malformed"}, list : {<<>>}]

\* the promotions property of a response body: an array or absent
PromoValues(si) ==
    [tag : {"array"}, list : IF si = FirstStart THEN Promos ELSE LaterPromos]
    \cup [tag : {"absent"}, list : {<<>>}]

\* what axios.get settles with: a rejection (with or without a message of the
\* backend in error.response.data.error.message), or a 2xx response whose data
\* is null, is empty (falsy, not null) or is an object with optional items and
\* promotions; si is the start offset of the request
Responses(si) ==
    [kind : {"reject"}, backendMessage : BOOLEAN]
    \cup [kind : {"null", "empty"}]
    \cup [kind : {"data"}, items : ItemValues, promotions : PromoValues(si)]

---------------------------------------------------------------------------
VARIABLES
    env,      \* process.env: which of the two secrets are configured
    client,   \* which module's getGoogleRank the server has bound
    calls,    \* the calls of getGoogleRank, one record per slot
    kw,       \* the Keyword document as persisted
    doc,      \* per slot: the Keyword document the route handler has loaded
    replies,  \* per slot: the HTTP reply of the check-ranking request served there
    batch,    \* the check-rankings request in progress, and its reply
    now,      \* the clock behind new Date()
    view,     \* the rankingHistory of the keyword as the keyword list holds it
    indicator, \* what getRankChangeIndicator rendered for it
    args,     \* the strings handed to the URL normalization or to the domain match
    result    \* what the normalization or the match made of them

vars == <<env, client, calls, kw, doc, replies, batch, now, view, indicator, args, result>>

Slots == 1..MaxCalls

NoOutcome == [type |-> "none", num |-> 0, rank |-> "", urls |-> <<>>, message |-> ""]

\* getGoogleRank returns a number (the rank)
ReturnNumber(n) ==
    [type |-> "number", num |-> n, rank |-> "", urls |-> <<>>, message |-> ""]

\* getGoogleRank returns the object {rank, urls}
ReturnObject(r, u) ==
    [type |-> "object", num |-> 0, rank |-> r, urls |-> u, message |-> ""]

\* getGoogleRank returns a string
ReturnString(r) ==
    [type |-> "string", num |-> 0, rank |-> r, urls |-> <<>>, message |-> ""]

\* the outer catch: throw new Error(`Failed to fetch Google rankings: ${error.message}`)
Throw(m) ==
    [type |-> "error", num |-> 0, rank |-> "", urls |-> <<>>,
     message |-> "Failed to fetch Google rankings: " \o m]

\* the locals of one call of getGoogleRank, and where it stands:
\*   pc          "idle", "await" (axios.get in flight), "delay" (the 500 ms
\*               timer), "done" (returned or threw)
\*   caller      "none", "direct", "check-ranking" or "check-rankings"
\*   requests    the start offsets of the page requests issued, in order
\*   failures    the number of page requests that failed (rejected, or answered
\*               with a body that is null, empty or whose items is no array)
\*   failure     how the latest of them failed: "reject", "null", "empty",
\*               "malformed", or "none"
IdleCall ==
    [caller |-> "none", pc |-> "idle", domain |-> "", keyword |-> "",
     startIndex |-> FirstStart, allItems |-> <<>>, position |-> -1,
     adPosition |-> -1, requests |-> <<>>, failures |-> 0, failure |-> "none",
     outcome |-> NoOutcome]

---------------------------------------------------------------------------
(* Pure helpers of getGoogleRank *)

\* Array.prototype.findIndex, 0-based: the index of the first element that the
\* callback P (a function of the element) accepts, or -1
findIndex(s, P) ==
    LET hits == { i \in 1..Len(s) : P[s[i]] }
    IN  IF hits = {} THEN -1
        ELSE (CHOOSE i \in hits : \A j \in hits : i <= j) - 1

\* the callback of adResults.findIndex: an ad without a link never matches,
\* otherwise isUrlMatchingDomain(adUrl, normalizedDomain) decides
isAdMatch(ad) == ad # "nolink" /\ ad = "target"

\* the callback of items.findIndex in the server's client: an item without a
\* link never matches, otherwise isUrlMatchingDomain(itemUrl, normalizedDomain)
isItemMatch(item) == item # "nolink" /\ item = "target"

\* the callback of items.findIndex in the stand-alone client:
\* (item.link || '').includes(normalizedDomain); every string includes ''
isItemMatchLegacy(item, d) == d = "" \/ item = "target"

\* mutant: the promotions of every page are looked at
adPositionAfterAnyPage(si, promotions, ad) ==
    IF promotions.tag = "array" /\ Len(promotions.list) > 0
           /\ findIndex(promotions.list, [a \in ItemLinks |-> isAdMatch(a)]) # -1
    THEN findIndex(promotions.list, [a \in ItemLinks |-> isAdMatch(a)])
    ELSE ad

\* adPosition after the promotions of a response are looked at: they are looked
\* at only when startIndex is 1 and the list is present and not empty
adPositionAfter(si, promotions, ad) ==
    IF si = FirstStart /\ promotions.tag = "array" /\ Len(promotions.list) > 0
           /\ findIndex(promotions.list, [a \in ItemLinks |-> isAdMatch(a)]) # -1
    THEN findIndex(promotions.list, [a \in ItemLinks |-> isAdMatch(a)])
    ELSE ad

\* mutant: the - 1 of the absolute position forgotten
absolutePositionOneBased(si, batchPosition) == si + batchPosition

\* position = startIndex - 1 + batchPosition
absolutePosition(si, batchPosition) == si - 1 + batchPosition

\* mutant: the promoted match is ignored once an organic match is found
rankOnMatchOrganicOnly(ad, pos) == pos + 1

\* the value returned when a page holds an organic match: the ad position when
\* it is the better one, else the organic position, 1-based
rankOnMatch(ad, pos) ==
    IF ad # -1 /\ ad < pos THEN ad + 1 ELSE pos + 1

\* urlList: `${idx + 1}. ${item.link || ''}` of every accumulated item
urlList(items) == [i \in 1..Len(items) |-> <<i, items[i]>>]

\* mutant: the check for an empty result list is missing
afterLoopNoEmptyCheck(items, ad) ==
    IF ad # -1 THEN ReturnObject("Ad: " \o ToString(ad + 1), urlList(items))
    ELSE ReturnObject("Not found in top 100", urlList(items))

\* mutant: the ad position is rendered 0-based
afterLoopAdZeroBased(items, ad) ==
    IF ad # -1 THEN ReturnObject("Ad: " \o ToString(ad), urlList(items))
    ELSE IF Len(items) = 0 THEN ReturnObject("No results found", <<>>)
    ELSE ReturnObject("Not found in top 100", urlList(items))

\* what the server's client returns after the loop
afterLoop(items, ad) ==
    IF ad # -1 THEN ReturnObject("Ad: " \o ToString(ad + 1), urlList(items))
    ELSE IF Len(items) = 0 THEN ReturnObject("No results found", <<>>)
    ELSE ReturnObject("Not found in top 100", urlList(items))

\* what the stand-alone client returns or throws after the loop
afterLoopLegacy(items) ==
    IF Len(items) = 0 THEN Throw("No search results found")
    ELSE ReturnString("Not found in top 100")

---------------------------------------------------------------------------
(* Control flow of getGoogleRank, on the record c of one call *)

\* the page request of c failed in the way how
Failed(c, how) == [c EXCEPT !.failures = @ + 1, !.failure = how]

\* the call ends with the outcome o
Finish(c, o) == [c EXCEPT !.pc = "done", !.outcome = o]

\* the statements after the for loop
AfterLoop(c) ==
    Finish(c, IF client = "services" THEN afterLoop(c.allItems, c.adPosition)
              ELSE afterLoopLegacy(c.allItems))

\* mutant: the loop runs one page too far (startIndex <= 101)
LoopHeadOnePageMore(c) ==
    IF c.startIndex <= LastStart + PageSize /\ c.position = -1
    THEN [c EXCEPT !.pc = "await", !.requests = Append(@, c.startIndex)]
    ELSE AfterLoop(c)

\* the condition of the for loop: issue the request of the page at startIndex,
\* or leave the loop
LoopHead(c) ==
    IF c.startIndex <= LastStart /\ c.position = -1
    THEN [c EXCEPT !.pc = "await", !.requests = Append(@, c.startIndex)]
    ELSE AfterLoop(c)

\* mutant: the loop variable is not advanced
NextBatchSamePage(c) == LoopHead(c)

\* startIndex += 10, then the condition of the loop
NextBatch(c) == LoopHead([c EXCEPT !.startIndex = @ + PageSize])

\* mutant: the error of a page ends the call
CatchBatchErrorAbort(c) == Finish(c, Throw("transport error"))

\* mutant: the failed page is requested again
CatchBatchErrorRetry(c) == LoopHead(c)

\* catch (batchError) of the server's client: the error is logged and the loop
\* continues with the next batch
CatchBatchError(c) == NextBatch(c)

\* the end of a loop body that neither returned nor broke: sleep 500 ms when
\* another page follows
EndOfBody(c) ==
    IF c.startIndex < LastStart THEN [c EXCEPT !.pc = "delay"] ELSE NextBatch(c)

\* mutant: a match is recorded but the loop body goes on instead of returning
OrganicPageNoReturn(c, items, batchPosition) ==
    LET c1  == [c EXCEPT !.allItems = @ \o items]
        pos == absolutePosition(c.startIndex, batchPosition)
        c2  == IF batchPosition # -1 THEN [c1 EXCEPT !.position = pos] ELSE c1
    IN  IF Len(items) < PageSize THEN AfterLoop(c2) ELSE EndOfBody(c2)

\* mutant: a short page does not end the loop
OrganicPageNoShortBreak(c, items, batchPosition) ==
    LET c1  == [c EXCEPT !.allItems = @ \o items]
        pos == absolutePosition(c.startIndex, batchPosition)
    IN  IF batchPosition # -1
        THEN Finish([c1 EXCEPT !.position = pos],
                    ReturnNumber(IF client = "services"
                                 THEN rankOnMatch(c.adPosition, pos)
                                 ELSE pos + 1))
        ELSE EndOfBody(c1)

\* a page of organic items arrived: accumulate it, look for the domain, return
\* on a match, break on a short page
OrganicPage(c, items, batchPosition) ==
    LET c1  == [c EXCEPT !.allItems = @ \o items]
        pos == absolutePosition(c.startIndex, batchPosition)
    IN  IF batchPosition # -1
        THEN Finish([c1 EXCEPT !.position = pos],
                    ReturnNumber(IF client = "services"
                                 THEN rankOnMatch(c.adPosition, pos)
                                 ELSE pos + 1))
        ELSE IF Len(items) < PageSize THEN AfterLoop(c1)
        ELSE EndOfBody(c1)

\* mutant: the search-engine id is not checked
getGoogleRankNoEngineId(who, d, k) ==
    LET c == [IdleCall EXCEPT !.caller = who, !.domain = d, !.keyword = k]
    IN  IF ~env.apiKey THEN Finish(c, Throw("GOOGLE_API_KEY is not configured"))
        ELSE IF client = "services" /\ d = ""
        THEN Finish(c, Throw("Domain is required for rank checking"))
        ELSE LoopHead(c)

\* getGoogleRank(domain, keyword) up to its first await
getGoogleRank(who, d, k) ==
    LET c == [IdleCall EXCEPT !.caller = who, !.domain = d, !.keyword = k]
    IN  IF ~env.apiKey THEN Finish(c, Throw("GOOGLE_API_KEY is not configured"))
        ELSE IF ~env.searchEngineId
        THEN Finish(c, Throw("GOOGLE_SEARCH_ENGINE_ID is not configured"))
        ELSE IF client = "services" /\ d = ""
        THEN Finish(c, Throw("Domain is required for rank checking"))
        ELSE LoopHead(c)

\* the server's client after axios.get settled with r
settleServices(c, r) ==
    CASE r.kind \in {"reject", "null"} ->
           \* a rejection, or reading items of a null body, throws
           CatchBatchError(Failed(c, r.kind))
      [] r.kind = "empty" ->
           \* if (!response.data) break
           AfterLoop(Failed(c, "empty"))
      [] r.kind = "data" ->
           LET c1 == [c EXCEPT !.adPosition =
                                  adPositionAfter(c.startIndex, r.promotions, @)]
           IN  IF r.items.tag = "absent" THEN AfterLoop(c1)
               ELSE IF r.items.tag = "malformed"
               THEN \* [...allItems, ...items] throws
                    CatchBatchError(Failed(c1, "malformed"))
               ELSE OrganicPage(c1, r.items.list,
                                findIndex(r.items.list,
                                          [item \in ItemLinks |-> isItemMatch(item)]))

\* the stand-alone client after axios.get settled with r
settleLegacy(c, r) ==
    CASE r.kind = "reject" ->
           Finish(Failed(c, "reject"),
                  IF r.backendMessage THEN Throw("Google API Error: backend message")
                  ELSE Throw("transport error"))
      [] r.kind \in {"null", "empty"} ->
           \* if (!response.data || !response.data.items) break
           AfterLoop(Failed(c, r.kind))
      [] r.kind = "data" ->
           IF r.items.tag = "absent" THEN AfterLoop(c)
           ELSE IF r.items.tag = "malformed"
           THEN Finish(Failed(c, "malformed"), Throw("items is not iterable"))
           ELSE LET isMatch == [item \in ItemLinks |-> isItemMatchLegacy(item, c.domain)]
                IN  OrganicPage(c, r.items.list, findIndex(r.items.list, isMatch))

\* the call after axios.get settled with r
settle(c, r) ==
    IF client = "services" THEN settleServices(c, r) ELSE settleLegacy(c, r)

---------------------------------------------------------------------------
(* The steps of a call *)

\* getGoogleRank is called directly, outside of any route
Call(i, d, k) ==
    /\ calls[i].pc = "idle"
    /\ batch.pc = "idle"
    /\ calls' = [calls EXCEPT ![i] = getGoogleRank("direct", d, k)]
    /\ UNCHANGED <<env, client, kw, doc, replies, batch, now, view, indicator, args, result>>

\* the page request in flight settles with r
Settle(i, r) ==
    /\ calls[i].pc = "await"
    /\ calls' = [calls EXCEPT ![i] = settle(@, r)]
    /\ UNCHANGED <<env, client, kw, doc, replies, batch, now, view, indicator, args, result>>

\* the 500 ms timer fires
DelayElapsed(i) ==
    /\ calls[i].pc = "delay"
    /\ calls' = [calls EXCEPT ![i] = NextBatch(@)]
    /\ UNCHANGED <<env, client, kw, doc, replies, batch, now, view, indicator, args, result>>

\* the direct caller takes the outcome
Return(i) ==
    /\ calls[i].pc = "done"
    /\ calls[i].caller = "direct"
    /\ calls' = [calls EXCEPT ![i] = IdleCall]
    /\ UNCHANGED <<env, client, kw, doc, replies, batch, now, view, indicator, args, result>>

---------------------------------------------------------------------------
(* The routes of server.js that call getGoogleRank *)

NoReply == [status |-> 0, error |-> ""]

ErrorReply(st, msg) == [status |-> st, error |-> msg]

NoBatch == [pc |-> "idle", keywords |-> <<>>, reply |-> NoReply, results |-> <<>>]

\* no string is being normalized or matched
NoArgs == [url |-> <<>>, domain |-> <<>>]

NoResult == [pc |-> "none", text |-> <<>>, matches |-> FALSE]

\* a Keyword document as created: currentRank defaults to 'Not checked', no
\* lastChecked (0 here), an empty rankingHistory; version is the __v that
\* save() maintains
NewKeyword ==
    [currentRank |-> "Not checked", lastChecked |-> 0, rankingHistory |-> <<>>,
     version |-> 0]

\* res.json({keyword, rank, lastChecked, history}) of check-ranking: the history
\* is the rankingHistory of the document the handler holds
OkReply(h) == [status |-> 200, error |-> "", history |-> h]

AllIdle == batch.pc = "idle" /\ \A i \in Slots : calls[i].pc = "idle"

\* mutant: the ownership of the domain is not checked
guardReplyNoOwnership(auth, lookupError, owned, denied) ==
    IF ~auth THEN ErrorReply(401, "Unauthorized - Please log in")
    ELSE IF lookupError.status # 0 THEN lookupError
    ELSE IF ~env.apiKey
    THEN ErrorReply(500, "Server configuration error: GOOGLE_API_KEY is missing")
    ELSE IF ~env.searchEngineId
    THEN ErrorReply(500, "Server configuration error: GOOGLE_SEARCH_ENGINE_ID is missing")
    ELSE NoReply

\* the answer of a route before it calls getGoogleRank, or NoReply when every
\* guard passes: ensureAuth, then the lookup (404 or 400), the ownership of the
\* domain, the two secrets
guardReply(auth, lookupError, owned, denied) ==
    IF ~auth THEN ErrorReply(401, "Unauthorized - Please log in")
    ELSE IF lookupError.status # 0 THEN lookupError
    ELSE IF ~owned THEN ErrorReply(403, denied)
    ELSE IF ~env.apiKey
    THEN ErrorReply(500, "Server configuration error: GOOGLE_API_KEY is missing")
    ELSE IF ~env.searchEngineId
    THEN ErrorReply(500, "Server configuration error: GOOGLE_SEARCH_ENGINE_ID is missing")
    ELSE NoReply

\* the String schema type of currentRank and position: a number is stored as
\* its decimal string, a string as it is, a plain object cannot be cast
castable(o) == o.type \in {"number", "string"}

castString(o) == IF o.type = "number" THEN ToString(o.num) ELSE o.rank

\* mutant: the history is not limited
limitHistoryOff(h) == h

\* mutant: the first 30 entries are kept instead of the last 30
limitHistoryKeepOldest(h) ==
    IF Len(h) > HistoryCapacity THEN SubSeq(h, 1, HistoryCapacity) ELSE h

\* keyword.rankingHistory.slice(-30) once the history is longer than 30
limitHistory(h) ==
    IF Len(h) > HistoryCapacity
    THEN SubSeq(h, Len(h) - HistoryCapacity + 1, Len(h))
    ELSE h

\* the document after the handler recorded the rank: currentRank, lastChecked,
\* the pushed entry, the history limited to its last 30 entries
recordRank(d, o, checked, pushed) ==
    [d EXCEPT !.currentRank = castString(o),
              !.lastChecked = checked,
              !.rankingHistory =
                  limitHistory(Append(@, [position |-> castString(o),
                                          checkedAt |-> pushed]))]

\* the handler loaded the document `loaded` and replaced its rankingHistory by
\* the slice: the push made it longer than 30
replacedHistory(loaded) == Len(loaded.rankingHistory) + 1 > HistoryCapacity

\* keyword.save() rejects with a VersionError: an array that was replaced as a
\* whole is written only to the version of the document that was loaded
versionError(db, loaded) == replacedHistory(loaded) /\ db.version # loaded.version

\* mutant: save() writes the whole document the handler holds
savedWholeDocument(db, loaded, local) == [local EXCEPT !.version = db.version + 1]

\* the persisted document db after keyword.save() of the document local, which
\* the handler had loaded as `loaded`: save() writes what was modified, the
\* two assigned paths and either the pushed entry ($push) or, when the array
\* was replaced, the whole array; it increments the version
saved(db, loaded, local) ==
    IF replacedHistory(loaded)
    THEN [local EXCEPT !.version = db.version + 1]
    ELSE [db EXCEPT !.currentRank = local.currentRank,
                    !.lastChecked = local.lastChecked,
                    !.rankingHistory = Append(@, local.rankingHistory[Len(local.rankingHistory)]),
                    !.version = @ + 1]

\* POST /api/keywords/:id/check-ranking up to the first await of getGoogleRank;
\* the getGoogleRank of server.js is the one of services/searchService
CheckRanking(i, auth, found, owned, d, k) ==
    /\ client = "services"
    /\ calls[i].pc = "idle"
    /\ batch.pc = "idle"
    /\ now < MaxTime
    /\ now' = now + 1
    /\ LET g == guardReply(auth,
                           IF found THEN NoReply ELSE ErrorReply(404, "Keyword not found"),
                           owned, "Access denied")
       IN  IF g.status # 0
           THEN /\ replies' = [replies EXCEPT ![i] = g]
                /\ UNCHANGED <<calls, doc>>
           ELSE /\ replies' = [replies EXCEPT ![i] = NoReply]
                /\ doc' = [doc EXCEPT ![i] = kw]
                /\ calls' = [calls EXCEPT ![i] = getGoogleRank("check-ranking", d, k)]
    /\ batch' = NoBatch
    /\ UNCHANGED <<env, client, kw, view, indicator, args, result>>

\* mutant: the rank 'Error' is recorded when getGoogleRank threw
CheckRankingDoneRecordsError(i, tick) ==
    /\ calls[i].pc = "done"
    /\ calls[i].caller = "check-ranking"
    /\ LET o == calls[i].outcome
       IN  IF ~castable(o) /\ o.type # "error"
           THEN /\ replies' = [replies EXCEPT ![i] =
                                  ErrorReply(500, "Keyword validation failed")]
                /\ doc' = [doc EXCEPT ![i] = NewKeyword]
                /\ UNCHANGED <<kw, now>>
           ELSE /\ now' = now + tick
                /\ kw' = saved(kw, doc[i],
                               recordRank(doc[i],
                                          IF o.type = "error" THEN ReturnString("Error") ELSE o,
                                          now, now'))
                /\ doc' = [doc EXCEPT ![i] = NewKeyword]
                /\ replies' = [replies EXCEPT ![i] =
                                  IF o.type = "error" THEN ErrorReply(500, o.message)
                                  ELSE OkReply(recordRank(doc[i], o, now, now').rankingHistory)]
    /\ calls' = [calls EXCEPT ![i] = IdleCall]
    /\ UNCHANGED <<env, client, batch, view, indicator, args, result>>

\* the rest of the check-ranking handler, once getGoogleRank returned or threw:
\* record the rank and save, or answer 500 with the error's message; a rank the
\* schema cannot cast, or a document that changed under a replaced history,
\* makes save() reject, which the same catch answers
CheckRankingDone(i, tick) ==
    /\ calls[i].pc = "done"
    /\ calls[i].caller = "check-ranking"
    /\ LET o == calls[i].outcome
       IN  IF o.type = "error"
           THEN /\ replies' = [replies EXCEPT ![i] = ErrorReply(500, o.message)]
                /\ doc' = [doc EXCEPT ![i] = NewKeyword]
                /\ UNCHANGED <<kw, now>>
           ELSE IF ~castable(o)
           THEN /\ replies' = [replies EXCEPT ![i] =
                                  ErrorReply(500, "Keyword validation failed")]
                /\ doc' = [doc EXCEPT ![i] = NewKeyword]
                /\ UNCHANGED <<kw, now>>
           ELSE IF versionError(kw, doc[i])
           THEN /\ replies' = [replies EXCEPT ![i] =
                                  ErrorReply(500, "No matching document found")]
                /\ doc' = [doc EXCEPT ![i] = NewKeyword]
                /\ UNCHANGED <<kw, now>>
           ELSE /\ now' = now + tick
                /\ kw' = saved(kw, doc[i], recordRank(doc[i], o, now, now'))
                /\ doc' = [doc EXCEPT ![i] = NewKeyword]
                /\ replies' = [replies EXCEPT ![i] =
                                  OkReply(recordRank(doc[i], o, now, now').rankingHistory)]
    /\ calls' = [calls EXCEPT ![i] = IdleCall]
    /\ UNCHANGED <<env, client, batch, view, indicator, args, result>>

\* mutant: one error makes every result of the batch an error
resultOfErrorSpreads(c) ==
    LET failed == \E i \in Slots : calls[i].outcome.type = "error"
    IN  [keyword |-> c.keyword,
         rank    |-> IF failed THEN ReturnString("Error") ELSE c.outcome,
         error   |-> IF failed THEN "Failed to check rankings" ELSE ""]

\* the entry of the results array for one keyword: {keyword, rank, timestamp},
\* or {keyword, rank: 'Error', error, details, timestamp}
resultOf(c) ==
    [keyword |-> c.keyword,
     rank    |-> IF c.outcome.type = "error" THEN ReturnString("Error") ELSE c.outcome,
     error   |-> IF c.outcome.type = "error" THEN c.outcome.message ELSE ""]

\* POST /api/check-rankings up to the await of Promise.all: every keyword's
\* getGoogleRank runs up to its first await
CheckRankings(auth, valid, owned, d, kws) ==
    /\ AllIdle
    /\ now < MaxTime
    /\ now' = now + 1
    /\ LET g == guardReply(auth,
                           IF valid THEN NoReply
                           ELSE ErrorReply(400, "Invalid input. Please provide domain and keywords array."),
                           owned, "Access denied or domain not found")
       IN  IF g.status # 0
           THEN /\ batch' = [NoBatch EXCEPT !.reply = g]
                /\ UNCHANGED calls
           ELSE /\ batch' = [NoBatch EXCEPT !.pc = "running", !.keywords = kws]
                /\ calls' = [j \in Slots |->
                               IF j <= Len(kws)
                               THEN getGoogleRank("check-rankings", d, kws[j])
                               ELSE calls[j]]
    /\ replies' = [i \in Slots |-> NoReply]
    /\ UNCHANGED <<env, client, kw, doc, view, indicator, args, result>>

\* mutant: one error turns the whole answer into a 500 without results
CheckRankingsDoneAllOrNothing ==
    /\ batch.pc = "running"
    /\ \A j \in 1..Len(batch.keywords) : calls[j].pc = "done"
    /\ LET results == [j \in 1..Len(batch.keywords) |-> resultOf(calls[j])]
           hasErrors == \E j \in 1..Len(results) : results[j].error # ""
       IN  batch' = [batch EXCEPT !.pc = "idle",
                                  !.results = IF hasErrors THEN <<>> ELSE results,
                                  !.reply = IF hasErrors
                                            THEN ErrorReply(500, "Failed to check rankings. Please try again later.")
                                            ELSE [status |-> 200, error |-> ""]]
    /\ calls' = [j \in Slots |-> IF j <= Len(batch.keywords) THEN IdleCall ELSE calls[j]]
    /\ UNCHANGED <<env, client, kw, doc, replies, now, view, indicator, args, result>>

\* Promise.all resolved: 207 with the results when some result carries an
\* error, else the results
CheckRankingsDone ==
    /\ batch.pc = "running"
    /\ \A j \in 1..Len(batch.keywords) : calls[j].pc = "done"
    /\ LET results == [j \in 1..Len(batch.keywords) |-> resultOf(calls[j])]
           hasErrors == \E j \in 1..Len(results) : results[j].error # ""
       IN  batch' = [batch EXCEPT !.pc = "idle",
                                  !.results = results,
                                  !.reply = IF hasErrors
                                            THEN [status |-> 207,
                                                  error |-> "Some rankings could not be checked"]
                                            ELSE [status |-> 200, error |-> ""]]
    /\ calls' = [j \in Slots |-> IF j <= Len(batch.keywords) THEN IdleCall ELSE calls[j]]
    /\ UNCHANGED <<env, client, kw, doc, replies, now, view, indicator, args, result>>

---------------------------------------------------------------------------
(* The trend indicator of the keyword list (getRankChangeIndicator) *)
(* A position is the sequence of the characters of its string.      *)

DigitChars == <<"0", "1", "2", "3", "4", "5", "6", "7", "8", "9">>

isDigit(ch) == \E i \in 1..Len(DigitChars) : DigitChars[i] = ch

digitValue(ch) == (CHOOSE i \in 1..Len(DigitChars) : DigitChars[i] = ch) - 1

\* the value of a sequence of decimal digits
RECURSIVE decimal(_)
decimal(ds) ==
    IF ds = <<>> THEN 0
    ELSE 10 * decimal(SubSeq(ds, 1, Len(ds) - 1)) + digitValue(ds[Len(ds)])

NaN == [nan |-> TRUE, val |-> 0]

\* parseInt(string) in radix 10: leading white space is skipped, a sign is
\* accepted, the longest run of digits that follows is the value, and NaN when
\* that run is empty
parseInt(s) ==
    LET blank == { i \in 1..Len(s) : \A j \in 1..i : s[j] = " " }
        start == Cardinality(blank) + 1
        signed == start <= Len(s) /\ s[start] \in {"+", "-"}
        first == IF signed THEN start + 1 ELSE start
        run   == { e \in first..Len(s) : \A j \in first..e : isDigit(s[j]) }
        value == decimal(SubSeq(s, first, first + Cardinality(run) - 1))
    IN  IF run = {} THEN NaN
        ELSE [nan |-> FALSE, val |-> IF signed /\ s[start] = "-" THEN 0 - value ELSE value]

\* 'Not found in top 100'
NotFoundText ==
    <<"N", "o", "t", " ", "f", "o", "u", "n", "d", " ", "i", "n", " ",
      "t", "o", "p", " ", "1", "0", "0">>

\* 'No results found'
NoResultsText ==
    <<"N", "o", " ", "r", "e", "s", "u", "l", "t", "s", " ", "f", "o", "u", "n", "d">>

\* 'Ad: 2'
AdText == <<"A", "d", ":", " ", "2">>

\* the positions a history entry of the keyword list can show: '9', '15',
\* '100', 'Ad: 2', 'Not found in top 100', 'No results found'
TrendPositions ==
    { <<"9">>, <<"1", "5">>, <<"1", "0", "0">>, AdText, NotFoundText, NoResultsText }

\* the rankingHistory arrays of a keyword of the list, of at most MaxShown entries
ViewHistories == UNION { [1..n -> [position : TrendPositions]] : n \in 0..MaxShown }

\* mutant: a higher number is taken for the better rank
getRankChangeIndicatorInverted(h) ==
    IF Len(h) < 2 THEN "null"
    ELSE LET current  == h[Len(h)].position
             previous == h[Len(h) - 1].position
         IN  IF current = NotFoundText /\ previous = NotFoundText THEN "null"
             ELSE IF current = NotFoundText THEN "rank-down"
             ELSE IF previous = NotFoundText THEN "rank-up"
             ELSE LET currentPos  == parseInt(current)
                      previousPos == parseInt(previous)
                  IN  IF currentPos.nan \/ previousPos.nan THEN "null"
                      ELSE IF currentPos.val > previousPos.val THEN "rank-up"
                      ELSE IF currentPos.val < previousPos.val THEN "rank-down"
                      ELSE "rank-same"

\* mutant: 'Not found in top 100' is not handled before the positions are parsed
getRankChangeIndicatorNoSentinel(h) ==
    IF Len(h) < 2 THEN "null"
    ELSE LET currentPos  == parseInt(h[Len(h)].position)
             previousPos == parseInt(h[Len(h) - 1].position)
         IN  IF currentPos.nan \/ previousPos.nan THEN "null"
             ELSE IF currentPos.val < previousPos.val THEN "rank-up"
             ELSE IF currentPos.val > previousPos.val THEN "rank-down"
             ELSE "rank-same"

\* getRankChangeIndicator(keyword): null, or the span rank-up, rank-down or
\* rank-same
getRankChangeIndicator(h) ==
    IF Len(h) < 2 THEN "null"
    ELSE LET current  == h[Len(h)].position
             previous == h[Len(h) - 1].position
         IN  IF current = NotFoundText /\ previous = NotFoundText THEN "null"
             ELSE IF current = NotFoundText THEN "rank-down"
             ELSE IF previous = NotFoundText THEN "rank-up"
             ELSE LET currentPos  == parseInt(current)
                      previousPos == parseInt(previous)
                  IN  IF currentPos.nan \/ previousPos.nan THEN "null"
                      ELSE IF currentPos.val < previousPos.val THEN "rank-up"
                      ELSE IF currentPos.val > previousPos.val THEN "rank-down"
                      ELSE "rank-same"

\* setKeywords: the list holds a keyword whose rankingHistory is h; nothing is
\* rendered for it yet
KeywordsFetched(h) ==
    /\ view' = h
    /\ indicator' = "unrendered"
    /\ UNCHANGED <<env, client, calls, kw, doc, replies, batch, now, args, result>>

\* the row of the keyword is rendered
RenderIndicator ==
    /\ indicator = "unrendered"
    /\ indicator' = getRankChangeIndicator(view)
    /\ UNCHANGED <<env, client, calls, kw, doc, replies, batch, now, view, args, result>>

---------------------------------------------------------------------------
(* Specifications *)

\* the server at rest: no call, no request, the keyword as created
AtRest ==
    /\ calls = [i \in Slots |-> IdleCall]
    /\ kw = NewKeyword
    /\ doc = [i \in Slots |-> NewKeyword]
    /\ replies = [i \in Slots |-> NoReply]
    /\ batch = NoBatch
    /\ now = 0

Init ==
    /\ env \in [apiKey : BOOLEAN, searchEngineId : BOOLEAN]
    /\ client \in Clients
    /\ calls = [i \in Slots |-> IdleCall]
    /\ kw = NewKeyword
    /\ doc = [i \in Slots |-> NewKeyword]
    /\ replies = [i \in Slots |-> NoReply]
    /\ batch = NoBatch
    /\ now = 0
    /\ view = <<>>
    /\ indicator = "unrendered"
    /\ args = NoArgs
    /\ result = NoResult

\* the keyword list alone: any history is fetched and its indicator rendered
InitTrend ==
    /\ env = [apiKey |-> TRUE, searchEngineId |-> TRUE]
    /\ client = "services"
    /\ AtRest
    /\ view \in ViewHistories
    /\ indicator = "unrendered"
    /\ args = NoArgs
    /\ result = NoResult

NextTrend ==
    \/ \E h \in ViewHistories : KeywordsFetched(h)
    \/ RenderIndicator

SpecTrend == InitTrend /\ [][NextTrend]_vars

\* one call of getGoogleRank at a time, the backend answering each page with
\* any of Responses
Next ==
    \/ \E d \in Domains : Call(1, d, "widgets")
    \/ \E r \in Responses(calls[1].startIndex) : Settle(1, r)
    \/ DelayElapsed(1)
    \/ Return(1)

Spec == Init /\ [][Next]_vars

\* the answers of the backend under SpecRoute: a body without items, a short
\* page without the domain, a page that holds the domain at index 4; the first
\* page request may be rejected, and its response may carry one matching
\* promotion
RoutePages == { PageOf(3, {}, {}), PageOf(PageSize, {5}, {}) }

RoutePromos(si) ==
    {[tag |-> "absent", list |-> <<>>]}
    \cup (IF si = FirstStart THEN {[tag |-> "array", list |-> <<"target">>]} ELSE {})

RouteResponses(si) ==
    (IF si = FirstStart THEN [kind : {"reject"}, backendMessage : {FALSE}] ELSE {})
    \cup [kind : {"data"},
          items : [tag : {"array"}, list : RoutePages] \cup [tag : {"absent"}, list : {<<>>}],
          promotions : RoutePromos(si)]

\* the routes, and direct calls before the first request is served; a request
\* is served when nothing else is in flight
NextRoute ==
    \/ \E auth, found, owned \in BOOLEAN, d \in Domains, k \in Keywords :
         AllIdle /\ CheckRanking(1, auth, found, owned, d, k)
    \/ \E i \in Slots, tick \in 0..1 : CheckRankingDone(i, tick)
    \/ \E auth, valid, owned \in BOOLEAN, d \in Domains,
          kws \in UNION { [1..n -> Keywords] : n \in 0..MaxCalls } :
         client = "services" /\ CheckRankings(auth, valid, owned, d, kws)
    \/ CheckRankingsDone
    \/ \E d \in Domains, k \in Keywords : Call(1, d, k) /\ AllIdle /\ now = 0
    \/ \E i \in Slots : \E r \in RouteResponses(calls[i].startIndex) : Settle(i, r)
    \/ Return(1)

SpecRoute == Init /\ [][NextRoute]_vars

\* the lengths of the ranking history a keyword has when the server starts:
\* never checked, checked once, one check short of the capacity, at capacity
HistoryStarts == {0, 1, HistoryCapacity - 1, HistoryCapacity}

\* a Keyword document that n successful checks have left behind: the ranks
\* 1, 2, ..., n recorded at the instants -n, ..., -1 (the server starts at 0)
CheckedKeyword(n) ==
    IF n = 0 THEN NewKeyword
    ELSE [currentRank    |-> ToString(n),
          lastChecked    |-> -1,
          rankingHistory |-> [j \in 1..n |-> [position  |-> ToString(j),
                                             checkedAt |-> j - n - 1]],
          version        |-> n]

\* the server starts with a keyword that has been checked before
InitHistory ==
    /\ env \in [apiKey : BOOLEAN, searchEngineId : BOOLEAN]
    /\ client = "services"
    /\ calls = [i \in Slots |-> IdleCall]
    /\ kw \in { CheckedKeyword(n) : n \in HistoryStarts }
    /\ doc = [i \in Slots |-> NewKeyword]
    /\ replies = [i \in Slots |-> NoReply]
    /\ batch = NoBatch
    /\ now = 0
    /\ view = <<>>
    /\ indicator = "unrendered"
    /\ args = NoArgs
    /\ result = NoResult

\* check-ranking requests for that keyword, one after the other
NextHistory ==
    \/ \E auth, found, owned \in BOOLEAN, d \in Domains :
         AllIdle /\ CheckRanking(1, auth, found, owned, d, "widgets")
    \/ \E tick \in 0..1 : CheckRankingDone(1, tick)
    \/ \E r \in RouteResponses(calls[1].startIndex) : Settle(1, r)

SpecHistory == InitHistory /\ [][NextHistory]_vars

\* the check-rankings route alone, with either search client bound (the
\* stand-alone client is the one whose resolutions fail keyword by keyword)
NextCheckRankings ==
    \/ \E auth, valid, owned \in BOOLEAN, d \in Domains,
          kws \in UNION { [1..n -> Keywords] : n \in 0..MaxCalls } :
         CheckRankings(auth, valid, owned, d, kws)
    \/ CheckRankingsDone
    \/ \E i \in Slots : \E r \in RouteResponses(calls[i].startIndex) : Settle(i, r)

SpecCheckRankings == Init /\ [][NextCheckRankings]_vars

---------------------------------------------------------------------------
(* Properties of a resolution *)

Last(q) == q[Len(q)]

\* the item matches the target domain of the call c, as its client tests it
Matches(item, c) ==
    IF client = "legacy" THEN c.domain = "" \/ item = "target" ELSE item = "target"

\* C1: in one resolution at most 10 page requests are issued, their start
\* offsets are among 1, 11, ..., 91 and strictly increasing (so none is
\* requested twice), whatever the backend answers
C1_PageRequestsBounded ==
    \A i \in Slots :
        LET q == calls[i].requests
        IN  /\ Len(q) <= 10
            /\ \A j \in 1..Len(q) : q[j] \in {1, 11, 21, 31, 41, 51, 61, 71, 81, 91}
            /\ \A j, k \in 1..Len(q) : j < k => q[j] < q[k]

\* the ten pages were requested, some of them failed and some brought items
C1_Witness ==
    /\ Len(calls[1].requests) = 10
    /\ calls[1].failures > 0
    /\ Len(calls[1].allItems) > 0

Running(c) == c.pc \in {"await", "delay"}

\* what is left of the loop: decreases with every step of a running call
Variant(c) == 2 * (101 - c.startIndex) + (IF c.pc = "await" THEN 1 ELSE 0)

\* C2: every resolution terminates (each step of a running call ends it or
\* brings it nearer to the end of the ten pages), and ten pages of 10
\* non-matching items without a promoted match end after the request at offset
\* 91 with 'Not found in top 100'
C2_TerminatesNotFound ==
    /\ [][\A i \in Slots :
            Running(calls[i]) =>
               \/ calls'[i].pc = "done"
               \/ /\ Running(calls'[i])
                  /\ Variant(calls'[i]) < Variant(calls[i])
                  /\ Variant(calls'[i]) >= 0]_vars
    /\ [](\A i \in Slots :
            (Len(calls[i].allItems) = 100 /\ calls[i].position = -1) =>
               /\ calls[i].pc = "done"
               /\ calls[i].requests = <<1, 11, 21, 31, 41, 51, 61, 71, 81, 91>>
               /\ calls[i].adPosition = -1 =>
                     /\ calls[i].outcome.type \in {"object", "string"}
                     /\ calls[i].outcome.rank = "Not found in top 100")

\* ten full pages without the domain and without a promoted match were scanned
C2_Witness ==
    /\ client = "services"
    /\ Len(calls[1].allItems) = 100
    /\ calls[1].position = -1
    /\ calls[1].adPosition = -1
    /\ calls[1].pc = "done"

\* C3: once a fetched page holds an organic match the call is over: the step
\* that finds the match issues no request, the last request stays the one of
\* the page of the match, and no step of that call issues another one
C3_EarlyExit ==
    [][\A i \in Slots :
          /\ calls'[i].position # -1 =>
                /\ calls'[i].pc = "done"
                /\ calls'[i].requests = calls[i].requests
                /\ Last(calls'[i].requests) = 10 * (calls'[i].position \div 10) + 1
          /\ calls[i].position # -1 => calls'[i] \in {calls[i], IdleCall}]_vars

\* a match on the page at offset 11, index 3: offsets 21..91 were not requested
C3_Witness ==
    /\ calls[1].position = 13
    /\ calls[1].requests = <<1, 11>>
    /\ calls[1].pc = "done"

\* C4: when the first organic match is the item at 0-based index n of the page
\* requested with start offset s, position is s - 1 + n, the rank returned
\* (unless a promoted match is better) is s + n, it lies in 1..100, and no item
\* retrieved before it matches
C4_RankOfMatch ==
    \A i \in Slots :
        LET c      == calls[i]
            s      == Last(c.requests)
            before == 10 * (Len(c.requests) - 1 - c.failures)
            hits   == { j \in 1..Len(c.allItems) : Matches(c.allItems[j], c) }
        IN  c.position # -1 =>
              /\ hits # {}
              /\ \A j \in hits : j > before
              /\ \E n \in 0..9 :
                    /\ before + n + 1 \in hits
                    /\ \A j \in hits : j >= before + n + 1
                    /\ c.position = s - 1 + n
                    /\ (c.adPosition = -1 \/ c.adPosition >= c.position) =>
                          /\ c.outcome.type = "number"
                          /\ c.outcome.num = s + n
                    /\ s + n \in 1..100

\* one page whose item at index 4 is the first match: rank 5
C4_Witness ==
    /\ calls[1].requests = <<1>>
    /\ calls[1].position = 4
    /\ calls[1].outcome.num = 5
    /\ Cardinality({ j \in 1..Len(calls[1].allItems) : calls[1].allItems[j] = "target" }) = 2

C7_NoConfigNoRequest ==
    (~env.apiKey \/ ~env.searchEngineId) =>
        /\ \A i \in Slots :
              /\ calls[i].requests = <<>>
              /\ calls[i].pc \in {"idle", "done"}
              /\ calls[i].pc = "done" => calls[i].outcome.type = "error"
              /\ replies[i].status = 0 \/ replies[i].status >= 400
        /\ batch.pc = "idle"
        /\ batch.reply.status = 0 \/ batch.reply.status >= 400
        /\ kw = NewKeyword

\* the check-ranking route answered 500 for the missing search-engine id
C7_Witness ==
    /\ env.apiKey
    /\ ~env.searchEngineId
    /\ replies[1].status = 500
    /\ replies[1].error = "Server configuration error: GOOGLE_SEARCH_ENGINE_ID is missing"

C10_PromotedOnly ==
    \A i \in Slots :
        LET c == calls[i]
        IN  (c.pc = "done" /\ c.adPosition # -1 /\ c.position = -1) =>
              /\ c.outcome.type = "object"
              /\ c.outcome.rank = "Ad: " \o ToString(c.adPosition + 1)
              /\ c.adPosition = 0 => c.outcome.rank = "Ad: 1"
              /\ c.adPosition = 1 => c.outcome.rank = "Ad: 2"

\* the second promotion matched and a hundred organic items did not
C10_Witness ==
    /\ calls[1].pc = "done"
    /\ calls[1].adPosition = 1
    /\ calls[1].position = -1
    /\ Len(calls[1].allItems) = 100
    /\ calls[1].outcome.rank = "Ad: 2"

---------------------------------------------------------------------------
(* Properties of the routes, of the history and of the trend *)

\* C11 as stated: whenever a resolution started by a route ends without an
\* Error, the rank handed to the route is a plain value (a decimal rank or a
\* string), never a structured object, and the route records it: its save is
\* never refused
C11_RankIsPlainString ==
    \A i \in Slots :
        /\ (calls[i].pc = "done" /\ calls[i].caller \in {"check-ranking", "check-rankings"}
            /\ calls[i].outcome.type # "error") =>
                calls[i].outcome.type \in {"number", "string"}
        /\ replies[i].error # "Keyword validation failed"

C14_CurrentIsLastEntry ==
    Len(kw.rankingHistory) > 0 =>
        /\ kw.currentRank = kw.rankingHistory[Len(kw.rankingHistory)].position
        /\ kw.lastChecked = kw.rankingHistory[Len(kw.rankingHistory)].checkedAt

\* C15: a check-ranking request whose resolution ended in an Error is answered
\* 500 and persists nothing, and so does one whose save is refused; the
\* document changes only in the step that answers 200, and never while the
\* resolution is in flight
C15_ErrorPersistsNothing ==
    [][\A i \in Slots :
          /\ (calls[i].caller = "check-ranking" /\ calls[i].pc = "done"
              /\ calls[i].outcome.type = "error" /\ calls'[i].pc = "idle") =>
                /\ kw' = kw
                /\ replies'[i].status = 500
                /\ replies'[i].error = calls[i].outcome.message
          /\ (replies'[i] # replies[i] /\ replies'[i].status # 200) => kw' = kw
          /\ kw' # kw =>
                /\ calls[1].pc = "done"
                /\ calls[1].outcome.type \notin {"error", "none"}
                /\ replies'[1].status = 200]_vars

\* the resolution for a keyword with 30 history entries threw (its domain has
\* no URL): 500 was answered and the document is as it was
C15_Witness ==
    /\ replies[1].status = 500
    /\ replies[1].error = "Failed to fetch Google rankings: Domain is required for rank checking"
    /\ kw = CheckedKeyword(30)

\* the position is a decimal numeral
IsDecimal(p) == p # <<>> /\ \A j \in 1..Len(p) : isDigit(p[j])

\* the two most recent positions of the history shown
Current == view[Len(view)].position

Previous == view[Len(view) - 1].position

\* C16: once rendered, the trend of a history of fewer than two entries is
\* Unknown (null); when the two most recent positions are both integers it is
\* Up if the current one is lower than the previous one, Down if it is higher,
\* Same if they are equal
C16_NumericTrend ==
    indicator # "unrendered" =>
        /\ Len(view) < 2 => indicator = "null"
        /\ (Len(view) >= 2 /\ IsDecimal(Current) /\ IsDecimal(Previous)) =>
              /\ decimal(Current) < decimal(Previous) => indicator = "rank-up"
              /\ decimal(Current) > decimal(Previous) => indicator = "rank-down"
              /\ decimal(Current) = decimal(Previous) => indicator = "rank-same"

\* the history ends with '15', '100': the trend is Down (as strings '100' would
\* come before '15')
C16_Witness ==
    /\ Len(view) = 3
    /\ Previous = <<"1", "5">>
    /\ Current = <<"1", "0", "0">>
    /\ indicator = "rank-down"

\* C17: once rendered, a numeric current position after 'Not found in top 100'
\* gives Up, 'Not found in top 100' after a numeric position gives Down, and
\* 'Not found in top 100' twice gives Unknown (null)
C17_SentinelTrend ==
    (indicator # "unrendered" /\ Len(view) >= 2) =>
        /\ (IsDecimal(Current) /\ Previous = NotFoundText) => indicator = "rank-up"
        /\ (Current = NotFoundText /\ IsDecimal(Previous)) => indicator = "rank-down"
        /\ (Current = NotFoundText /\ Previous = NotFoundText) => indicator = "null"

\* the history ends with 'Not found in top 100', '9': the trend is Up
C17_Witness ==
    /\ Len(view) >= 2
    /\ Previous = NotFoundText
    /\ Current = <<"9">>
    /\ indicator = "rank-up"

\* the position neither parses as an integer nor is 'Not found in top 100'
Unparsable(p) == parseInt(p).nan /\ p # NotFoundText

\* C18 as stated: once rendered, the trend is Unknown (null) whenever one of
\* the two most recent positions is unparsable, whatever the other one is
C18_UnparsableIsUnknown ==
    (indicator # "unrendered" /\ Len(view) >= 2
     /\ (Unparsable(Current) \/ Unparsable(Previous))) =>
        indicator = "null"

\* the step in which Promise.all resolves and the batch is answered
BatchAnswered == batch.pc = "running" /\ batch'.pc = "idle"

\* C19: a batch is answered with exactly one result per keyword, in the order
\* of the keywords, each made from the outcome of that keyword's resolution
\* alone (rank 'Error' with the message when it threw, its rank otherwise);
\* while the batch runs every keyword's resolution is under way or done, and a
\* step of one resolution leaves the other resolutions as they are
C19_BatchIsolation ==
    [][/\ BatchAnswered =>
             /\ Len(batch'.results) = Len(batch.keywords)
             /\ \A j \in 1..Len(batch.keywords) :
                   LET res == batch'.results[j]
                       o   == calls[j].outcome
                   IN  /\ res.keyword = batch.keywords[j]
                       /\ o.type = "error" =>
                             /\ res.rank.type = "string"
                             /\ res.rank.rank = "Error"
                             /\ res.error = o.message
                       /\ o.type # "error" =>
                             /\ res.rank = o
                             /\ res.error = ""
       /\ batch'.pc = "running" =>
             \A j \in 1..Len(batch'.keywords) :
                 /\ calls'[j].pc \in {"await", "delay", "done"}
                 /\ calls'[j].keyword = batch'.keywords[j]
       /\ (batch.pc = "running" /\ batch'.pc = "running") =>
             \A i, j \in Slots :
                 (calls'[i] # calls[i] /\ j # i) => calls'[j] = calls[j]]_vars

\* the resolution of the first keyword threw, the second keyword was found at
\* rank 5: the answer carries both
C19_Witness ==
    /\ batch.pc = "idle"
    /\ Len(batch.results) = 2
    /\ batch.results[1].rank.rank = "Error"
    /\ batch.results[1].error # ""
    /\ batch.results[2].error = ""
    /\ batch.results[2].rank.num = 5

\* C20: the batch is answered 207 with the results if and only if the
\* resolution of at least one keyword threw, and 200 with the results
\* otherwise; it is never answered with an error status because of a keyword
C20_MultiStatus ==
    [][BatchAnswered =>
          LET failed == \E j \in 1..Len(batch.keywords) : calls[j].outcome.type = "error"
          IN  /\ batch'.reply.status = 207 <=> failed
              /\ batch'.reply.status = 200 <=> ~failed
              /\ failed => batch'.reply.error = "Some rankings could not be checked"
              /\ Len(batch'.results) = Len(batch.keywords)]_vars

\* the first keyword was resolved, the resolution of the second threw: 207
C20_Witness ==
    /\ batch.pc = "idle"
    /\ batch.reply.status = 207
    /\ Len(batch.results) = 2
    /\ batch.results[1].error = ""
    /\ batch.results[2].error # ""

---------------------------------------------------------------------------
(* Properties of validation, normalization, scheduling and access *)

\* C21 as stated: a resolution requested with an empty target domain or with
\* an empty keyword is rejected with an error before any backend page request
\* is made: such a call has issued no request and has ended with an Error
C21_EmptyInputRejected ==
    \A i \in Slots :
        (calls[i].pc # "idle" /\ (calls[i].domain = "" \/ calls[i].keyword = "")) =>
            /\ calls[i].requests = <<>>
            /\ calls[i].pc = "done"
            /\ calls[i].outcome.type = "error"

---------------------------------------------------------------------------
(* URL normalization and the domain match (isUrlMatchingDomain)      *)
(* A string is the sequence of its characters.                       *)

UpperCase ==
    <<"A", "B", "C", "D", "E", "F", "G", "H", "I", "J", "K", "L", "M",
      "N", "O", "P", "Q", "R", "S", "T", "U", "V", "W", "X", "Y", "Z">>

LowerCase ==
    <<"a", "b", "c", "d", "e", "f", "g", "h", "i", "j", "k", "l", "m",
      "n", "o", "p", "q", "r", "s", "t", "u", "v", "w", "x", "y", "z">>

\* the characters String.prototype.trim removes, as far as the inputs use them
WhiteSpace == {" ", "\t", "\n"}

\* String.prototype.toLowerCase
toLowerCase(s) ==
    [i \in 1..Len(s) |->
        IF \E j \in 1..Len(UpperCase) : UpperCase[j] = s[i]
        THEN LowerCase[CHOOSE j \in 1..Len(UpperCase) : UpperCase[j] = s[i]]
        ELSE s[i]]

\* String.prototype.startsWith
startsWith(s, p) == Len(s) >= Len(p) /\ SubSeq(s, 1, Len(p)) = p

\* String.prototype.endsWith
endsWith(s, p) == Len(s) >= Len(p) /\ SubSeq(s, Len(s) - Len(p) + 1, Len(s)) = p

\* String.prototype.includes
includes(s, p) == \E i \in 0..(Len(s) - Len(p)) : SubSeq(s, i + 1, i + Len(p)) = p

\* s.replace(/^p/, ''): the prefix p is removed when s starts with it
removePrefix(s, p) == IF startsWith(s, p) THEN SubSeq(s, Len(p) + 1, Len(s)) ELSE s

Http == <<"h", "t", "t", "p", ":", "/", "/">>

Https == <<"h", "t", "t", "p", "s", ":", "/", "/">>

Www == <<"w", "w", "w", ".">>

\* .replace(/^https?:\/\//, ''): one leading http:// or https:// is removed
removeProtocol(s) ==
    IF startsWith(s, Https) THEN removePrefix(s, Https) ELSE removePrefix(s, Http)

\* .replace(/^www\./, ''): one leading www. is removed
removeWww(s) == removePrefix(s, Www)

\* String.prototype.trim
trim(s) ==
    LET keep == { i \in 1..Len(s) : s[i] \notin WhiteSpace }
    IN  IF keep = {} THEN <<>>
        ELSE SubSeq(s, CHOOSE i \in keep : \A j \in keep : i <= j,
                       CHOOSE i \in keep : \A j \in keep : j <= i)

\* url.toLowerCase().replace(/^https?:\/\//, '').replace(/^www\./, '').trim()
normalizedUrl(url) == trim(removeWww(removeProtocol(toLowerCase(url))))

\* s.split('/')[0]: everything before the first /
beforeSlash(s) ==
    LET slashes == { i \in 1..Len(s) : s[i] = "/" }
    IN  IF slashes = {} THEN s
        ELSE SubSeq(s, 1, (CHOOSE i \in slashes : \A j \in slashes : i <= j) - 1)

\* the strings of which the inputs are made: a blank, the two schemes, www. in
\* both cases, a host
Blank == <<" ">>

WwwUpper == <<"W", "W", "W", ".">>

Host == <<"a", ".", "c", "o">>

UrlParts == {Blank, Http, Https, Www, WwwUpper, Host}

\* the concatenation of a sequence of strings
RECURSIVE concat(_)
concat(ps) == IF ps = <<>> THEN <<>> ELSE Head(ps) \o concat(Tail(ps))

\* the strings handed to the normalization: at most MaxParts parts in a row
UrlTexts == { concat(ps) : ps \in UNION { [1..n -> UrlParts] : n \in 0..MaxParts } }

\* the domain routes of server.js normalize the url of the request
NormalizeUrl ==
    /\ result.pc = "none"
    /\ result' = [pc |-> "normalized", text |-> normalizedUrl(args.url), matches |-> FALSE]
    /\ UNCHANGED <<env, client, calls, kw, doc, replies, batch, now, view, indicator, args>>

\* the normalization alone, on any of UrlTexts
InitNormalize ==
    /\ env = [apiKey |-> TRUE, searchEngineId |-> TRUE]
    /\ client = "services"
    /\ AtRest
    /\ view = <<>>
    /\ indicator = "unrendered"
    /\ args \in [url : UrlTexts, domain : {<<>>}]
    /\ result = NoResult

NextNormalize == NormalizeUrl

SpecNormalize == InitNormalize /\ [][NextNormalize]_vars

\* C22 as stated: the normalization is idempotent, normalizing a normalized
\* string gives that string again, for every input, also one with leading
\* white space or with a repeated scheme or www. prefix
C22_NormalizeIdempotent ==
    result.pc = "normalized" => normalizedUrl(result.text) = result.text

---------------------------------------------------------------------------
(* Check-ranking requests that overlap *)

\* check-ranking requests for one keyword of a domain, served as they arrive:
\* a request is taken up while the resolution of another one is in flight
NextOverlap ==
    \/ \E i \in Slots, auth, owned \in BOOLEAN :
         CheckRanking(i, auth, TRUE, owned, "example.com", "widgets")
    \/ \E i \in Slots, tick \in 0..1 : CheckRankingDone(i, tick)
    \/ \E i \in Slots : \E r \in RouteResponses(calls[i].startIndex) : Settle(i, r)

SpecOverlap == InitHistory /\ [][NextOverlap]_vars

\* the resolutions in flight that the route who started
InFlight(who) == { i \in Slots : calls[i].caller = who /\ Running(calls[i]) }

\* C23 as stated: a batch run processes its keywords one at a time, at no
\* moment are the resolutions of two keywords of the same batch in flight
\* together (so the first page request of a keyword is issued only after the
\* resolution of the previous keyword has completed)
C23_BatchOneAtATime ==
    Cardinality(InFlight("check-rankings")) <= 1

\* C24 as stated: for a keyword at most one check (resolution followed by the
\* history append) is in flight at any time, also when several callers
\* trigger checks of it together
C24_OneCheckPerKeyword ==
    Cardinality({ i \in Slots : calls[i].caller = "check-ranking" /\ calls[i].pc # "idle" }) <= 1

---------------------------------------------------------------------------
(* Properties of the paging *)

\* C25 as stated: within one resolution every page request after the first is
\* preceded by the inter-page delay: a step that issues a second or later
\* page request is the step that ends a delay
C25_DelayBeforeEveryLaterPage ==
    [][\A i \in Slots :
          (calls'[i].requests # calls[i].requests /\ Len(calls'[i].requests) > 1) =>
              calls[i].pc = "delay"]_vars

---------------------------------------------------------------------------
(* Properties of overlapping checks *)

---------------------------------------------------------------------------
(* The domain match on strings *)

\* mutant: the permissive test on the whole URL is missing
isUrlMatchingDomainNoFallback(url, domain) ==
    IF url = <<>> \/ domain = <<>> THEN FALSE
    ELSE LET urlDomain  == beforeSlash(normalizedUrl(url))
             domainPart == beforeSlash(normalizedUrl(domain))
         IN  \/ urlDomain = domainPart
             \/ endsWith(urlDomain, <<".">> \o domainPart)
             \/ includes(urlDomain, domainPart)

\* isUrlMatchingDomain(url, domain): false when either is empty; else both are
\* normalized, their parts before the first / are taken, and the four tests
\* are tried in turn
isUrlMatchingDomain(url, domain) ==
    IF url = <<>> \/ domain = <<>> THEN FALSE
    ELSE LET urlDomain  == beforeSlash(normalizedUrl(url))
             domainPart == beforeSlash(normalizedUrl(domain))
         IN  \/ urlDomain = domainPart
             \/ endsWith(urlDomain, <<".">> \o domainPart)
             \/ includes(urlDomain, domainPart)
             \/ includes(normalizedUrl(url), domainPart)

Sub == <<"b", ".">>

Slash == <<"/">>

\* the strings of which result URLs and target domains are made
MatchParts == {Www, Host, Sub, Slash}

\* the result URLs and the target domains handed to the match: at most
\* MaxParts parts in a row, a result URL possibly behind a scheme
TargetDomains ==
    { concat(ps) : ps \in UNION { [1..n -> MatchParts] : n \in 0..MaxParts } }

ResultUrls == TargetDomains \cup { Https \o t : t \in TargetDomains }

\* the callback of findIndex tests the link of an item against the domain
MatchUrl ==
    /\ result.pc = "none"
    /\ result' = [pc |-> "matched", text |-> normalizedUrl(args.url),
                  matches |-> isUrlMatchingDomain(args.url, args.domain)]
    /\ UNCHANGED <<env, client, calls, kw, doc, replies, batch, now, view, indicator, args>>

\* the match alone, on any result URL and any target domain
InitMatch ==
    /\ env = [apiKey |-> TRUE, searchEngineId |-> TRUE]
    /\ client = "services"
    /\ AtRest
    /\ view = <<>>
    /\ indicator = "unrendered"
    /\ args \in [url : ResultUrls, domain : TargetDomains]
    /\ result = NoResult

NextMatch == MatchUrl

SpecMatch == InitMatch /\ [][NextMatch]_vars

\* the part of the normalized target domain before its first /
DomainPortion == beforeSlash(normalizedUrl(args.domain))

\* C29: for a non-empty result URL and a non-empty target domain,
\* isUrlMatchingDomain returns true exactly when the normalized result URL
\* contains the normalized domain portion of the target as a substring (the
\* tests 1 to 3 never change the result); so a target whose normalized domain
\* portion is empty matches every result URL
C29_MatchIsContainment ==
    (result.pc = "matched" /\ args.url # <<>> /\ args.domain # <<>>) =>
        /\ result.matches <=> includes(result.text, DomainPortion)
        /\ DomainPortion = <<>> => result.matches

\* a target that is not empty but whose normalized domain portion is: it
\* matched a result URL
C29_Witness ==
    /\ result.pc = "matched"
    /\ args.url = Https \o Host
    /\ args.domain = Www \o Slash \o Host
    /\ DomainPortion = <<>>
    /\ result.matches

---------------------------------------------------------------------------
(* Properties of the access control *)

\* the keywords arrays of a check-rankings request
KeywordLists == UNION { [1..n -> Keywords] : n \in 0..MaxCalls }

\* the answer of the backend under SpecAccess: a full page that holds the
\* domain at index 4, no promotions
AccessResponse ==
    [kind |-> "data",
     items |-> [tag |-> "array", list |-> PageOf(PageSize, {5}, {})],
     promotions |-> [tag |-> "absent", list |-> <<>>]]

\* the two routes, served one request after the other, for callers who are or
\* are not logged in and who do or do not own the domain;
\* the backend answers every page request with AccessResponse
NextAccess ==
    \/ \E auth, found, owned \in BOOLEAN, d \in Domains, k \in Keywords :
         AllIdle /\ CheckRanking(1, auth, found, owned, d, k)
    \/ \E tick \in 0..1 : CheckRankingDone(1, tick)
    \/ \E auth, valid, owned \in BOOLEAN, d \in Domains, kws \in KeywordLists :
         CheckRankings(auth, valid, owned, d, kws)
    \/ CheckRankingsDone
    \/ \E i \in Slots : Settle(i, AccessResponse)

\* the server at rest with the client of services/searchService bound
InitAccess == Init /\ client = "services"

SpecAccess == InitAccess /\ [][NextAccess]_vars

\* the step answers the check-ranking request with an access error, starts no
\* resolution and leaves the persisted keyword as it is
DeniedUntouched(reply) ==
    /\ reply.status \in {401, 403}
    /\ calls' = calls
    /\ kw' = kw

\* C30: a check-ranking request from a caller who is not logged in, or for a
\* keyword whose domain the caller does not own, is answered with an access
\* error (401 or 403), starts no resolution (no backend request is issued) and
\* leaves the persisted keyword, its currentRank, lastChecked and history,
\* unchanged; the same holds for the check-rankings route. Stated step by
\* step: a step that is not such an answer does not serve such a request
C30_AccessDenied ==
    [][/\ ~DeniedUntouched(replies'[1]) =>
            \A auth, found, owned \in BOOLEAN :
                (~auth \/ (found /\ ~owned)) =>
                    \A d \in Domains, k \in Keywords :
                        ~CheckRanking(1, auth, found, owned, d, k)
       /\ ~DeniedUntouched(batch'.reply) =>
            \A auth, valid, owned \in BOOLEAN :
                (~auth \/ (valid /\ ~owned)) =>
                    \A d \in Domains, kws \in KeywordLists :
                        ~CheckRankings(auth, valid, owned, d, kws)]_vars

\* a keyword that was checked once; a second request, for a domain that is not
\* the caller's, was answered 403 and the keyword is as the first check left it
C30_Witness ==
    /\ replies[1] = ErrorReply(403, "Access denied")
    /\ Len(kw.rankingHistory) = 1
    /\ kw.lastChecked = 1
    /\ \A i \in Slots : calls[i].pc = "idle" /\ calls[i].requests = <<>>

====
